---- MODULE Spec2Model ----
(***************************************************************************)
(* ConvoQuest (src/app.py): a Streamlit page with a chat assistant, a quiz *)
(* generator and a transcript view, all backed by one generative-language  *)
(* service.  The model follows the session state of one browser session    *)
(* (st.session_state.chat_history, quiz_questions, user_answers,           *)
(* quiz_score), the widget state of the quiz page, and the one place where *)
(* a handler blocks: the call to the service in get_gemini_response.       *)
(*                                                                         *)
(* Texts are sequences of tokens.  The tokens "[", "]", "{", "}", ",",     *)
(* ":" and the double quote are the JSON punctuation characters, "0" is a  *)
(* JSON number, every other token is a run of ordinary characters (legal   *)
(* inside a JSON string, prose outside one).                               *)
(***************************************************************************)
EXTENDS Integers, Sequences, FiniteSets, TLC

VARIABLES
    chat_history,    \* st.session_state.chat_history: list of turns
    quiz_questions,  \* st.session_state.quiz_questions: list, or None
    user_answers,    \* st.session_state.user_answers: dict index -> option
    quiz_score,      \* st.session_state.quiz_score: None or an int
    topic,           \* value of the topic text_input (widget state)
    radio,           \* widget state of the radios q_<i> of the quiz form
    pc,              \* where the running script is: "idle" between runs,
                     \* "chat_call" / "quiz_call" inside get_gemini_response
    call,            \* arguments of the outstanding get_gemini_response call
    last             \* the handler that ran last, its outcome and what it
                     \* showed (st.error); an observation, never read by code

vars == <<chat_history, quiz_questions, user_answers, quiz_score, topic,
          radio, pc, call, last>>

quiz_vars == <<quiz_questions, user_answers, quiz_score>>

-----------------------------------------------------------------------------
(* Python / JSON values, tagged so that values of different types compare. *)

None == [t |-> "null"]
PyInt(n) == [t |-> "int", v |-> n]
Str(s) == [t |-> "str", v |-> s]
Num(s) == [t |-> "num", v |-> s]
List(s) == [t |-> "list", v |-> s]
Dict(f) == [t |-> "dict", v |-> f]

EmptyDict == [k \in {} |-> None]

\* Python truth value of None, a text Str(tokens) or a list List(elements):
\* None, the empty text and the empty list are false.
Truthy(x) == x # None /\ x.v # <<>>

-----------------------------------------------------------------------------
(* json.loads on a token sequence: a recursive-descent parse of one JSON   *)
(* value that must consume the whole text.  Results are                    *)
(* [ok |-> BOOLEAN, val |-> value, next |-> index after the value].        *)

QUOTE == "\""

Fail == [ok |-> FALSE, val |-> None, next |-> 0]

Ok(v, n) == [ok |-> TRUE, val |-> v, next |-> n]

\* Index of the first occurrence of tok in s at or after position i, else 0.
RECURSIVE IndexFrom(_, _, _)
IndexFrom(s, tok, i) ==
    IF i > Len(s) THEN 0
    ELSE IF s[i] = tok THEN i
    ELSE IndexFrom(s, tok, i + 1)

RECURSIVE ParseValue(_, _), ParseElements(_, _, _), ParseMembers(_, _, _)

ParseValue(s, i) ==
    IF i > Len(s) THEN Fail
    ELSE IF s[i] = QUOTE THEN
        LET j == IndexFrom(s, QUOTE, i + 1)
        IN  IF j = 0 THEN Fail ELSE Ok(Str(SubSeq(s, i + 1, j - 1)), j + 1)
    ELSE IF s[i] = "0" THEN Ok(Num("0"), i + 1)
    ELSE IF s[i] = "[" THEN
        IF i + 1 <= Len(s) /\ s[i + 1] = "]" THEN Ok(List(<<>>), i + 2)
        ELSE ParseElements(s, i + 1, <<>>)
    ELSE IF s[i] = "{" THEN
        IF i + 1 <= Len(s) /\ s[i + 1] = "}" THEN Ok(Dict(EmptyDict), i + 2)
        ELSE ParseMembers(s, i + 1, EmptyDict)
    ELSE Fail

\* The elements of an array from position i on; acc holds those parsed so far.
ParseElements(s, i, acc) ==
    LET e == ParseValue(s, i)
    IN  IF ~e.ok \/ e.next > Len(s) THEN Fail
        ELSE IF s[e.next] = "," THEN ParseElements(s, e.next + 1, Append(acc, e.val))
        ELSE IF s[e.next] = "]" THEN Ok(List(Append(acc, e.val)), e.next + 1)
        ELSE Fail

\* The members of an object from position i on; a repeated key keeps the
\* last value, as a Python dict does.
ParseMembers(s, i, acc) ==
    LET k == ParseValue(s, i)
    IN  IF ~k.ok \/ k.val.t # "str" \/ k.next > Len(s) \/ s[k.next] # ":" THEN Fail
        ELSE LET e == ParseValue(s, k.next + 1)
                 f == [x \in DOMAIN acc \cup {k.val.v} |->
                          IF x = k.val.v THEN e.val ELSE acc[x]]
             IN  IF ~e.ok \/ e.next > Len(s) THEN Fail
                 ELSE IF s[e.next] = "," THEN ParseMembers(s, e.next + 1, f)
                 ELSE IF s[e.next] = "}" THEN Ok(Dict(f), e.next + 1)
                 ELSE Fail

\* json.loads: the parsed value, or a JSONDecodeError.
json_loads(s) ==
    LET r == ParseValue(s, 1)
    IN  IF r.ok /\ r.next = Len(s) + 1 THEN r ELSE Fail

\* A variant of rfind that stops at the first occurrence.
rfindFirst(s, tok) == IndexFrom(s, tok, 1)

\* A variant of find that looks for the last occurrence.
findLast(s, tok) ==
    IF \E i \in 1..Len(s) : s[i] = tok
    THEN CHOOSE i \in 1..Len(s) : s[i] = tok /\ \A j \in (i + 1)..Len(s) : s[j] # tok
    ELSE 0

\* str.find / str.rfind of one character, as 1-based positions (0: absent,
\* Python's -1).
find(s, tok) == IndexFrom(s, tok, 1)

rfind(s, tok) ==
    IF \E i \in 1..Len(s) : s[i] = tok
    THEN CHOOSE i \in 1..Len(s) : s[i] = tok /\ \A j \in (i + 1)..Len(s) : s[j] # tok
    ELSE 0

\* clean_json_response: [val |-> parsed list or None, error |-> whether
\* st.error was called].  Without both brackets nothing is parsed and
\* nothing is shown; a slice that does not parse shows the parse error.
clean_json_response(raw_text) ==
    LET start == find(raw_text, "[")
        end == rfind(raw_text, "]")
    IN  IF start # 0 /\ end # 0
        THEN LET r == json_loads(SubSeq(raw_text, start, end))
             IN  IF r.ok THEN [val |-> r.val, error |-> FALSE]
                 ELSE [val |-> None, error |-> TRUE]
        ELSE [val |-> None, error |-> FALSE]

-----------------------------------------------------------------------------
(* The service behind get_gemini_response, and what the user can type.     *)

MaxHistory == 3

S(x) == <<QUOTE, x, QUOTE>>

\* The text of one quiz item object with the given members.
Member(k, v) == S(k) \o <<":">> \o v

Arr2(x, y) == <<"[">> \o x \o <<",">> \o y \o <<"]">>

Item(q, opts, ca) ==
    <<"{">> \o Member("question", S(q)) \o <<",">> \o Member("options", opts)
           \o <<",">> \o Member("correct_answer", S(ca)) \o <<"}">>

ItemNoOptions == <<"{">> \o Member("question", S("Q")) \o <<",">>
                        \o Member("correct_answer", S("a")) \o <<"}">>

ItemNoQuestion == <<"{">> \o Member("options", Arr2(S("a"), S("b"))) \o <<",">>
                         \o Member("correct_answer", S("a")) \o <<"}">>

ItemNoCorrect == <<"{">> \o Member("question", S("Q")) \o <<",">>
                        \o Member("options", Arr2(S("a"), S("b"))) \o <<"}">>

\* Texts the service may return to the quiz prompt: well-formed quizzes,
\* bare or wrapped in prose, quizzes with individually malformed items
\* (a member missing, options not a list, no options, a correct_answer
\* that is no option), an array whose element is no object, and texts the
\* sanitizer cannot use.
QuizTexts ==
    { Arr2(Item("Q", Arr2(S("a"), S("b")), "b"), Item("R", Arr2(S("c"), S("d")), "c")),
      <<"Here", "~~~">> \o <<"[">> \o Item("Q", Arr2(S("a"), S("b")), "a") \o <<"]">> \o <<"~~~">>,
      Arr2(ItemNoOptions, Item("R", Arr2(S("a"), S("b")), "b")),
      Arr2(Item("Q", Arr2(S("a"), S("b")), "z"), ItemNoCorrect),
      <<"[">> \o ItemNoQuestion \o <<"]">>,
      <<"[">> \o Item("Q", S("a"), "a") \o <<"]">>,
      <<"[">> \o Item("Q", <<"[", "]">>, "a") \o <<"]">>,
      <<"[", "0", "]">>,
      <<"[", "]">>,
      <<"Sorry">>,
      <<"[", "Sorry", "]">>,
      <<"]", "[">>,
      <<>> }

Prompts == { <<"hi">>, <<"why">> }

ChatTexts == { <<"ok">>, <<>> }

Topics == { <<>>, <<"Rome">> }

\* What one call of the service does: raise, or return a response whose
\* .text is the given text.
Raises == [ok |-> FALSE, text |-> <<>>]

Returns(text) == [ok |-> TRUE, text |-> text]

\* get_gemini_response, given what the service did: the response text, or
\* None after showing the error.  It touches no session state.
get_gemini_response(outcome) ==
    IF outcome.ok THEN [val |-> Str(outcome.text), error |-> FALSE]
    ELSE [val |-> None, error |-> TRUE]

NoCall == [active |-> FALSE, prompt |-> <<>>, chat_history |-> None, force_json |-> FALSE]

Call(prompt, history, force_json) ==
    [active |-> TRUE, prompt |-> prompt, chat_history |-> history, force_json |-> force_json]

Turn(role, text) == [role |-> role, parts |-> <<text>>]

\* The record kept in last.  op: the handler; prev: the handler before it;
\* arg: the prompt or topic it was given; before: the chat history when a
\* send began; outcome, text: what the service did ("pending" while the
\* call is out); error: whether the run showed an st.error.
Started(op, outcome, arg, before) ==
    [op |-> op, prev |-> last.op, outcome |-> outcome, error |-> FALSE,
     arg |-> arg, text |-> None, before |-> before]

Ran(op) == Started(op, "ok", <<>>, <<>>)

Finished(outcome, error, text) ==
    [last EXCEPT !.outcome = outcome, !.error = error, !.text = text]

-----------------------------------------------------------------------------
(* Session state initialization (the script's first run).                  *)

Init ==
    /\ chat_history = <<>>
    /\ quiz_questions = List(<<>>)
    /\ user_answers = EmptyDict
    /\ quiz_score = None
    /\ topic = <<>>
    /\ radio = EmptyDict
    /\ pc = "idle"
    /\ call = NoCall
    /\ last = [op |-> "start", prev |-> "start", outcome |-> "ok", error |-> FALSE,
               arg |-> <<>>, text |-> None, before |-> <<>>]

-----------------------------------------------------------------------------
(* Tab 1: the chat send handler, split at the blocking service call.       *)

\* A variant of SendMessage that is accepted while a service call is out.
SendMessageWhileBusy(user_prompt) ==
    /\ Len(chat_history) + 2 <= MaxHistory
    /\ chat_history' = Append(chat_history, Turn("user", user_prompt))
    /\ call' = Call(user_prompt, List(chat_history'), FALSE)
    /\ pc' = "chat_call"
    /\ last' = Started("send", "pending", user_prompt, chat_history)
    /\ UNCHANGED <<quiz_questions, user_answers, quiz_score, topic, radio>>

SendMessage(user_prompt) ==
    /\ pc = "idle"
    /\ Len(chat_history) + 2 <= MaxHistory
    /\ chat_history' = Append(chat_history, Turn("user", user_prompt))
    /\ call' = Call(user_prompt, List(chat_history'), FALSE)
    /\ pc' = "chat_call"
    /\ last' = Started("send", "pending", user_prompt, chat_history)
    /\ UNCHANGED <<quiz_questions, user_answers, quiz_score, topic, radio>>

\* A variant of AfterReply that stores a model turn for every reply, also
\* for None.
AfterReplyUnconditional(history, response_text) ==
    Append(history, Turn("model", IF response_text = None THEN <<>> ELSE response_text.v))

\* A variant of AfterReply that writes the reply over the last turn.
AfterReplyOverwrite(history, response_text) ==
    IF Truthy(response_text)
    THEN Append(SubSeq(history, 1, Len(history) - 1), Turn("model", response_text.v))
    ELSE history

\* History after the reply: a truthy response_text is appended as a model
\* turn, anything else leaves the history alone.
AfterReply(history, response_text) ==
    IF Truthy(response_text)
    THEN Append(history, Turn("model", response_text.v))
    ELSE history

ReplyKind(outcome) ==
    IF ~outcome.ok THEN "gateway_failure"
    ELSE IF outcome.text = <<>> THEN "empty_text"
    ELSE "ok"

-----------------------------------------------------------------------------
(* Tab 2: quiz items, the quiz form and its radios.                        *)

\* Python's `k in q`: a key of a dict, an element of a list, a substring of
\* a str (a token stands for a run of characters, so the token k itself).
\* For a number the test raises TypeError: see Raising.
Has(q, k) ==
    IF q.t = "dict" THEN <<k>> \in DOMAIN q.v
    ELSE IF q.t = "list" THEN \E n \in 1..Len(q.v) : q.v[n] = Str(<<k>>)
    ELSE IF q.t = "str" THEN \E n \in 1..Len(q.v) : q.v[n] = k
    ELSE FALSE

Get(q, k) == q.v[<<k>>]

\* The render-time format check raises TypeError on this item: `in` on a
\* number or null, or q['options'] on a list or str that passed both `in`
\* tests.
Raising(q) ==
    \/ q.t \in {"num", "null"}
    \/ q.t \in {"list", "str"} /\ Has(q, "question") /\ Has(q, "options")

\* Python indices of a list value, and the element at a Python index.
Indices(items) == 0..(Len(items.v) - 1)

At(items, i) == items.v[i + 1]

\* The render-time format check of one item.
Malformed(q) ==
    \/ ~Has(q, "question")
    \/ ~Has(q, "options")
    \/ Get(q, "options").t # "list"

\* The items that get a radio: those that pass the format check, up to the
\* first item on which the check raises and ends the script run.
Rendered(items) ==
    IF Truthy(items)
    THEN {i \in Indices(items) :
             (\A j \in 0..i : ~Raising(At(items, j))) /\ ~Malformed(At(items, i))}
    ELSE {}

\* The script run ends in the quiz form with a TypeError: nothing below the
\* failing item is on the page (no submit button, no score section, no
\* history tab).
RenderRaises(items) ==
    Truthy(items) /\ \E i \in Indices(items) : Raising(At(items, i))

\* A variant of st.radio whose default is the last option.
RadioValueDefaultLast(w) ==
    IF w.opts = <<>> THEN None
    ELSE w.opts[IF w.sel = 0 THEN Len(w.opts) ELSE w.sel]

\* st.radio: the selected option; the first option while the user has
\* selected nothing (sel = 0); None when there are no options.
RadioValue(w) ==
    IF w.opts = <<>> THEN None
    ELSE w.opts[IF w.sel = 0 THEN 1 ELSE w.sel]

\* The radios after a script run that ends with the given items: one radio
\* q_<i> per rendered item.  A radio keeps its selection from the run before
\* while its key and its options stay the same; radios not rendered in a
\* run lose their state.
RenderForm(items, widgets) ==
    [i \in Rendered(items) |->
        LET opts == Get(At(items, i), "options").v
        IN  IF i \in DOMAIN widgets /\ widgets[i].opts = opts
            THEN widgets[i]
            ELSE [opts |-> opts, sel |-> 0]]

\* The local dict user_answers the form builds while rendering.
FormAnswers(widgets) == [i \in DOMAIN widgets |-> RadioValue(widgets[i])]

\* A variant of the grading loop that counts every answered item that has a
\* correct_answer, right or wrong.
RECURSIVE ScoreLoopNoCompare(_, _, _, _)
ScoreLoopNoCompare(items, answers, i, score) ==
    IF i >= Len(items.v) THEN score
    ELSE LET q == At(items, i)
             hit == i \in DOMAIN answers /\ Has(q, "correct_answer")
         IN  ScoreLoopNoCompare(items, answers, i + 1, IF hit THEN score + 1 ELSE score)

\* The grading loop, from Python index i on with the score so far.
RECURSIVE ScoreLoop(_, _, _, _)
ScoreLoop(items, answers, i, score) ==
    IF i >= Len(items.v) THEN score
    ELSE LET q == At(items, i)
             hit == /\ i \in DOMAIN answers
                    /\ Has(q, "correct_answer")
                    /\ answers[i] = Get(q, "correct_answer")
         IN  ScoreLoop(items, answers, i + 1, IF hit THEN score + 1 ELSE score)

Grade(items, answers) == ScoreLoop(items, answers, 0, 0)

quiz_prompt(t) == <<"Generate a 20-question multiple-choice quiz on the topic:">> \o t

\* A rerun in which only the topic input changed.
SetTopic(t) ==
    /\ pc = "idle"
    /\ t # topic
    /\ topic' = t
    /\ radio' = RenderForm(quiz_questions, radio)
    /\ last' = Started("topic", "ok", t, <<>>)
    /\ UNCHANGED <<chat_history, quiz_questions, user_answers, quiz_score, pc, call>>

\* The user picks option k of radio q_<i> in the form (no script run).
SelectOption(i, k) ==
    /\ pc = "idle"
    /\ i \in DOMAIN radio
    /\ k \in 1..Len(radio[i].opts)
    /\ radio' = [radio EXCEPT ![i].sel = k]
    /\ last' = Ran("select")
    /\ UNCHANGED <<chat_history, quiz_questions, user_answers, quiz_score, topic, pc, call>>

\* A variant of GenerateQuiz that clears the old quiz before it looks at
\* the topic.
GenerateQuizClearsFirst ==
    /\ pc = "idle"
    /\ quiz_questions' = List(<<>>)
    /\ user_answers' = EmptyDict
    /\ quiz_score' = None
    /\ IF Truthy(Str(topic))
       THEN /\ call' = Call(quiz_prompt(topic), None, TRUE)
            /\ pc' = "quiz_call"
            /\ last' = Started("generate", "pending", topic, <<>>)
            /\ UNCHANGED radio
       ELSE /\ last' = Started("generate", "empty_topic", topic, <<>>)
            /\ radio' = RenderForm(quiz_questions', radio)
            /\ UNCHANGED <<call, pc>>
    /\ UNCHANGED <<chat_history, topic>>

\* A variant of GenerateQuiz that forgets to clear the score.
GenerateQuizKeepsScore ==
    /\ pc = "idle"
    /\ IF Truthy(Str(topic))
       THEN /\ quiz_questions' = List(<<>>)
            /\ user_answers' = EmptyDict
            /\ call' = Call(quiz_prompt(topic), None, TRUE)
            /\ pc' = "quiz_call"
            /\ last' = Started("generate", "pending", topic, <<>>)
            /\ UNCHANGED <<radio, quiz_score>>
       ELSE /\ last' = Started("generate", "empty_topic", topic, <<>>)
            /\ radio' = RenderForm(quiz_questions, radio)
            /\ UNCHANGED <<quiz_questions, user_answers, quiz_score, call, pc>>
    /\ UNCHANGED <<chat_history, topic>>

\* "Generate Quiz" up to the service call; with an empty topic, the warning.
GenerateQuiz ==
    /\ pc = "idle"
    /\ IF Truthy(Str(topic))
       THEN /\ quiz_questions' = List(<<>>)
            /\ user_answers' = EmptyDict
            /\ quiz_score' = None
            /\ call' = Call(quiz_prompt(topic), None, TRUE)
            /\ pc' = "quiz_call"
            /\ last' = Started("generate", "pending", topic, <<>>)
            /\ UNCHANGED radio
       ELSE /\ last' = Started("generate", "empty_topic", topic, <<>>)
            /\ radio' = RenderForm(quiz_questions, radio)
            /\ UNCHANGED <<quiz_questions, user_answers, quiz_score, call, pc>>
    /\ UNCHANGED <<chat_history, topic>>

\* What the handler stores once the service call is over: the sanitized
\* items of a truthy response; [items, error shown, kind of outcome, text].
Generated(items, outcome) ==
    LET raw_response == get_gemini_response(outcome)
    IN  IF Truthy(raw_response.val)
        THEN LET c == clean_json_response(raw_response.val.v)
             IN  [items |-> c.val,
                  error |-> c.error \/ ~Truthy(c.val),
                  kind |-> IF c.val = None THEN "sanitizer_failure"
                           ELSE IF c.val.v = <<>> THEN "empty_result"
                           ELSE "ok",
                  text |-> raw_response.val]
        ELSE [items |-> items, error |-> raw_response.error, kind |-> ReplyKind(outcome),
              text |-> raw_response.val]

\* "Generate Quiz" from the return of the service call to the end of the run.
QuizReply(outcome) ==
    /\ pc = "quiz_call"
    /\ LET g == Generated(quiz_questions, outcome)
       IN  /\ quiz_questions' = g.items
           /\ last' = Finished(g.kind, g.error, g.text)
    /\ radio' = RenderForm(quiz_questions', radio)
    /\ pc' = "idle"
    /\ call' = NoCall
    /\ UNCHANGED <<chat_history, user_answers, quiz_score, topic>>

\* A variant of SubmitAnswers that drops the skipped items from the quiz
\* when it grades.
SubmitAnswersPrunes ==
    /\ pc = "idle"
    /\ Truthy(quiz_questions)
    /\ ~RenderRaises(quiz_questions)
    /\ user_answers' = FormAnswers(RenderForm(quiz_questions, radio))
    /\ quiz_score' = PyInt(Grade(quiz_questions, user_answers'))
    /\ quiz_questions' = List(SelectSeq(quiz_questions.v, LAMBDA q : ~Malformed(q)))
    /\ radio' = RenderForm(quiz_questions, radio)
    /\ last' = Ran("submit")
    /\ UNCHANGED <<chat_history, topic, pc, call>>

\* "Submit Answers": the form is on the page whenever quiz_questions is
\* truthy, its submit button whenever the form's loop ran to its end.
SubmitAnswers ==
    /\ pc = "idle"
    /\ Truthy(quiz_questions)
    /\ ~RenderRaises(quiz_questions)
    /\ user_answers' = FormAnswers(RenderForm(quiz_questions, radio))
    /\ quiz_score' = PyInt(Grade(quiz_questions, user_answers'))
    /\ radio' = RenderForm(quiz_questions, radio)
    /\ last' = Ran("submit")
    /\ UNCHANGED <<chat_history, quiz_questions, topic, pc, call>>

\* A variant of TakeAnotherQuiz that keeps the questions and clears only
\* the answers and the score.
TakeSameQuizAgain ==
    /\ pc = "idle"
    /\ quiz_score # None
    /\ ~RenderRaises(quiz_questions)
    /\ user_answers' = EmptyDict
    /\ quiz_score' = None
    /\ radio' = RenderForm(quiz_questions, radio)
    /\ last' = Ran("retake")
    /\ UNCHANGED <<quiz_questions, chat_history, topic, pc, call>>

\* A variant of TakeAnotherQuiz that forgets to clear the answers.
TakeAnotherQuizKeepsAnswers ==
    /\ pc = "idle"
    /\ quiz_score # None
    /\ ~RenderRaises(quiz_questions)
    /\ quiz_questions' = List(<<>>)
    /\ quiz_score' = None
    /\ radio' = RenderForm(quiz_questions', radio)
    /\ last' = Ran("retake")
    /\ UNCHANGED <<user_answers, chat_history, topic, pc, call>>

\* "Take Another Quiz?": the button is on the page whenever a score is set
\* (and the form above it was rendered).
TakeAnotherQuiz ==
    /\ pc = "idle"
    /\ quiz_score # None
    /\ ~RenderRaises(quiz_questions)
    /\ quiz_questions' = List(<<>>)
    /\ user_answers' = EmptyDict
    /\ quiz_score' = None
    /\ radio' = RenderForm(quiz_questions', radio)
    /\ last' = Ran("retake")
    /\ UNCHANGED <<chat_history, topic, pc, call>>

-----------------------------------------------------------------------------
(* Tab 1, continued: the chat send handler after the service call.         *)

ChatReply(outcome) ==
    /\ pc = "chat_call"
    /\ LET r == get_gemini_response(outcome)
       IN  /\ chat_history' = AfterReply(chat_history, r.val)
           /\ last' = Finished(ReplyKind(outcome), r.error, r.val)
    /\ radio' = RenderForm(quiz_questions, radio)
    /\ pc' = "idle"
    /\ call' = NoCall
    /\ UNCHANGED <<quiz_questions, user_answers, quiz_score, topic>>

-----------------------------------------------------------------------------
(* Tab 3: "Clear Chat History".                                            *)

\* A variant of ClearChatHistory that drops only the latest turn.
ClearLatestTurn ==
    /\ pc = "idle"
    /\ ~RenderRaises(quiz_questions)
    /\ chat_history' = SubSeq(chat_history, 1, Len(chat_history) - 1)
    /\ radio' = RenderForm(quiz_questions, radio)
    /\ last' = Ran("clear")
    /\ UNCHANGED <<quiz_questions, user_answers, quiz_score, topic, pc, call>>

\* A variant of ClearChatHistory that resets the quiz as well.
ClearEverything ==
    /\ pc = "idle"
    /\ ~RenderRaises(quiz_questions)
    /\ chat_history' = <<>>
    /\ quiz_questions' = List(<<>>)
    /\ user_answers' = EmptyDict
    /\ quiz_score' = None
    /\ radio' = RenderForm(quiz_questions', radio)
    /\ last' = Ran("clear")
    /\ UNCHANGED <<topic, pc, call>>

\* "Clear Chat History": tab 3 is rendered after the quiz tab.
ClearChatHistory ==
    /\ pc = "idle"
    /\ ~RenderRaises(quiz_questions)
    /\ chat_history' = <<>>
    /\ radio' = RenderForm(quiz_questions, radio)
    /\ last' = Ran("clear")
    /\ UNCHANGED <<quiz_questions, user_answers, quiz_score, topic, pc, call>>

-----------------------------------------------------------------------------

ChatOutcomes == {Raises} \cup {Returns(t) : t \in ChatTexts}

QuizOutcomes == {Raises} \cup {Returns(t) : t \in QuizTexts}

Next ==
    \/ \E p \in Prompts : SendMessage(p)
    \/ \E o \in ChatOutcomes : ChatReply(o)
    \/ \E t \in Topics : SetTopic(t)
    \/ GenerateQuiz
    \/ \E o \in QuizOutcomes : QuizReply(o)
    \/ \E i \in DOMAIN radio : \E k \in 1..Len(radio[i].opts) : SelectOption(i, k)
    \/ SubmitAnswers
    \/ TakeAnotherQuiz
    \/ ClearChatHistory

Spec == Init /\ [][Next]_vars

-----------------------------------------------------------------------------
(* Properties.                                                             *)

\* The session: everything but the observation in last.
session == <<chat_history, quiz_questions, user_answers, quiz_score, topic,
             radio, pc, call>>

\* The state of the quiz lifecycle.
QuizState ==
    IF pc = "quiz_call" THEN "GENERATING"
    ELSE IF quiz_score # None THEN "GRADED"
    ELSE IF Truthy(quiz_questions) THEN "READY"
    ELSE "IDLE"

IsPrefix(s, t) == Len(s) <= Len(t) /\ SubSeq(t, 1, Len(s)) = s

SendDone == pc = "idle" /\ last.op = "send"

\* C1: after a send whose service call failed (get_gemini_response returned
\* None), the history is the history before the send plus exactly one user
\* turn with the submitted message: no model turn, and no rollback.
C1_FailedSendKeepsUserTurn ==
    (SendDone /\ last.outcome = "gateway_failure")
        => chat_history = Append(last.before, Turn("user", last.arg))

\* C1 happens: a failed send on top of an earlier turn.
C1_Witness ==
    /\ SendDone
    /\ last.outcome = "gateway_failure"
    /\ last.before # <<>>

\* C2: after a send whose service call succeeded, whatever text it
\* returned (the empty text included), the history is the history before
\* the send, the user turn, and one model turn holding that text.
C2_SuccessfulReplyAppended ==
    (SendDone /\ last.outcome \in {"ok", "empty_text"})
        => chat_history = last.before \o <<Turn("user", last.arg), Turn("model", last.text.v)>>

\* C3: without "Clear Chat History" the history only grows at its end:
\* every step other than a clear leaves the old history as a prefix of
\* the new one.
C3_AppendOnlyBetweenResets ==
    [][ClearChatHistory \/ IsPrefix(chat_history, chat_history')]_vars

\* C3 happens: a history of several turns that has lived through the
\* quiz handlers.
C3_Witness ==
    /\ Len(chat_history) >= 3
    /\ last.op = "retake"

\* C4: "Clear Chat History" always leaves the history empty, and a second
\* clear right after a first changes nothing in the session.
C4_ResetIdempotent ==
    [][ClearChatHistory =>
          /\ chat_history' = <<>>
          /\ (last.op = "clear" => UNCHANGED session)]_vars

\* C4 happens: two clears in a row.
C4_Witness ==
    /\ last.op = "clear"
    /\ last.prev = "clear"
    /\ chat_history = <<>>

\* C5: "Generate Quiz" with an empty topic leaves items, answers and score
\* as they were, issues no service call and does not enter GENERATING.
C5_EmptyTopicNoEffect ==
    [][(GenerateQuiz /\ topic = <<>>) =>
          /\ UNCHANGED <<quiz_questions, user_answers, quiz_score>>
          /\ UNCHANGED call
          /\ QuizState' = QuizState
          /\ QuizState' # "GENERATING"]_vars

\* C5 happens: an empty-topic generate on a graded quiz.
C5_Witness ==
    /\ last.op = "generate"
    /\ last.outcome = "empty_topic"
    /\ QuizState = "GRADED"

GenerateDone == pc = "idle" /\ last.op = "generate" /\ last.outcome # "empty_topic"

GenerateFailures == {"gateway_failure", "sanitizer_failure", "empty_result"}

Lifecycle(submitFrom) ==
    /\ (GenerateQuiz /\ topic # <<>>) =>
          QuizState \in {"IDLE", "READY", "GRADED"} /\ QuizState' = "GENERATING"
    /\ (\E o \in QuizOutcomes : QuizReply(o)) =>
          /\ QuizState = "GENERATING"
          /\ QuizState' = (IF last'.outcome = "ok" THEN "READY" ELSE "IDLE")
    /\ SubmitAnswers => QuizState \in submitFrom /\ QuizState' = "GRADED"
    /\ TakeAnotherQuiz => QuizState = "GRADED" /\ QuizState' = "IDLE"
    /\ QuizState' # QuizState =>
          \/ GenerateQuiz
          \/ \E o \in QuizOutcomes : QuizReply(o)
          \/ SubmitAnswers
          \/ TakeAnotherQuiz

\* C7 as stated: the lifecycle takes only the listed transitions, submit
\* only from READY and retake only from GRADED.
C7_SubmitOnlyInReady == [][Lifecycle({"READY"})]_vars

\* C7, amended: the lifecycle takes only the listed transitions and
\* GRADED to GRADED on submit: submit is accepted only while there are
\* items (READY or GRADED), retake only from GRADED.
C7_Lifecycle == [][Lifecycle({"READY", "GRADED"})]_vars

\* C7 happens: a graded quiz submitted once more.
C7_Witness ==
    /\ last.op = "submit"
    /\ last.prev = "submit"
    /\ QuizState = "GRADED"

\* The indices graded as correct: answered, with a correct_answer, and the
\* answer equal to it.
CorrectIndices ==
    {i \in Indices(quiz_questions) :
        /\ i \in DOMAIN user_answers
        /\ Has(At(quiz_questions, i), "correct_answer")
        /\ user_answers[i] = Get(At(quiz_questions, i), "correct_answer")}

\* C8: once a submit has set the score, it is the number of items answered
\* with exactly their correct_answer, so between 0 and len(items).
C8_ScoreCountsCorrect ==
    quiz_score # None
        => /\ quiz_score.v = Cardinality(CorrectIndices)
           /\ 0 <= quiz_score.v
           /\ quiz_score.v <= Len(quiz_questions.v)

\* C8 happens: two items answered, one right and one wrong, score 1.
C8_Witness ==
    /\ last.op = "submit"
    /\ Len(quiz_questions.v) = 2
    /\ DOMAIN user_answers = {0, 1}
    /\ quiz_score = PyInt(1)

Options(q) == IF Has(q, "options") /\ Get(q, "options").t = "list" THEN Get(q, "options").v ELSE <<>>

\* C9 as stated: after a submit every item has an answer, the answer is
\* one of its options, and it is the first option where the user chose
\* nothing.
C9_EveryItemAnswered ==
    last.op = "submit"
        => \A i \in Indices(quiz_questions) :
              /\ i \in DOMAIN user_answers
              /\ \E k \in 1..Len(Options(At(quiz_questions, i))) :
                    user_answers[i] = Options(At(quiz_questions, i))[k]
              /\ radio[i].sel = 0 => user_answers[i] = Options(At(quiz_questions, i))[1]

\* C9, amended: after a submit the answered items are exactly the rendered
\* ones (a question and a list of options); the answer of a rendered item
\* with options is one of its options, the first where the user chose
\* nothing, and None where the list of options is empty.
C9_RenderedItemsAnswered ==
    last.op = "submit"
        => /\ DOMAIN user_answers = Rendered(quiz_questions)
           /\ \A i \in Rendered(quiz_questions) :
                 LET opts == Options(At(quiz_questions, i))
                 IN  IF opts = <<>> THEN user_answers[i] = None
                     ELSE /\ \E k \in 1..Len(opts) : user_answers[i] = opts[k]
                          /\ radio[i].sel = 0 => user_answers[i] = opts[1]

\* C9 happens: a submit with one radio chosen (not its first option), one
\* left alone.
C9_Witness ==
    /\ last.op = "submit"
    /\ Rendered(quiz_questions) = {0, 1}
    /\ radio[0].sel = 2
    /\ radio[1].sel = 0

\* The quiz state the page has at its first run.
InitialQuiz == <<List(<<>>), EmptyDict, None>>

\* What a generate leaves when it starts from the initial state and the
\* service does the given thing.
FromInitial(outcome) ==
    LET g == Generated(InitialQuiz[1], outcome)
    IN  [quiz |-> <<g.items, InitialQuiz[2], InitialQuiz[3]>>,
         radio |-> RenderForm(g.items, EmptyDict)]

LastOutcome == IF last.text = None THEN Raises ELSE Returns(last.text.v)

\* C10: retake leaves items, answers and score at their initial values,
\* and a generate after a retake ends as the same generate from the initial
\* state with the same response does.
C10_RetakeCleanSlate ==
    /\ last.op = "retake" => quiz_vars = InitialQuiz /\ radio = EmptyDict
    /\ (GenerateDone /\ last.prev = "retake")
          => /\ quiz_vars = FromInitial(LastOutcome).quiz
             /\ radio = FromInitial(LastOutcome).radio

\* C10 happens: a quiz generated right after a retake.
C10_Witness ==
    /\ GenerateDone
    /\ last.prev = "retake"
    /\ last.outcome = "ok"

\* The steps that start a quiz generation, and the step that ends one.
GenerateStarts == GenerateQuiz /\ topic # <<>>

GenerateEnds == pc = "quiz_call" /\ pc' = "idle"

\* C11: a score is present only with items, and only from a submit graded
\* against the items now stored: a step ends with a score only if it is a
\* submit (which keeps the items and grades them), or the score was there
\* before and items, answers and score are all untouched; a generate with
\* a topic and a retake end without a score.
C11_ScoreOnlyAfterSubmit ==
    /\ [](quiz_score # None => Truthy(quiz_questions))
    /\ [][/\ SubmitAnswers =>
                /\ quiz_questions' = quiz_questions
                /\ quiz_score' = PyInt(Cardinality(
                      {i \in DOMAIN user_answers' :
                          /\ Has(At(quiz_questions', i), "correct_answer")
                          /\ user_answers'[i] = Get(At(quiz_questions', i), "correct_answer")}))
          /\ (quiz_score' # None /\ ~SubmitAnswers) =>
                quiz_score # None /\ UNCHANGED quiz_vars
          /\ (GenerateStarts \/ TakeAnotherQuiz) => quiz_score' = None]_vars

\* C11 happens: a graded quiz whose score has outlived a chat send.
C11_Witness ==
    /\ quiz_score # None
    /\ SendDone
    /\ last.prev = "submit"

\* C12: every key of answers is an index of the stored items, and answers
\* is empty while there are no items.
C12_AnswerKeysAreIndices ==
    IF Truthy(quiz_questions)
    THEN DOMAIN user_answers \subseteq 0..(Len(quiz_questions.v) - 1)
    ELSE user_answers = EmptyDict

\* C12 happens: answers recorded for one of two items.
C12_Witness ==
    /\ Truthy(quiz_questions)
    /\ Len(quiz_questions.v) = 2
    /\ DOMAIN user_answers = {1}

-----------------------------------------------------------------------------
(* The sanitizer on every short text: the generate handler, waiting for    *)
(* the service, is handed each text over a small alphabet.                 *)

MaxRaw == 5

Alphabet == {"[", "]", ",", "0", "x", QUOTE}

RawTexts == UNION {[1..n -> Alphabet] : n \in 0..MaxRaw}

\* The session after the topic was typed and "Generate Quiz" clicked.
SanitizerInit ==
    /\ chat_history = <<>>
    /\ quiz_questions = List(<<>>)
    /\ user_answers = EmptyDict
    /\ quiz_score = None
    /\ topic = <<"Rome">>
    /\ radio = EmptyDict
    /\ pc = "quiz_call"
    /\ call = Call(quiz_prompt(topic), None, TRUE)
    /\ last = [op |-> "generate", prev |-> "topic", outcome |-> "pending", error |-> FALSE,
               arg |-> topic, text |-> None, before |-> <<>>]

SanitizerNext == \E raw \in RawTexts : QuizReply(Returns(raw))

SanitizerSpec == SanitizerInit /\ [][SanitizerNext]_vars

\* The sanitizer has run on the text in last.text.
Sanitized == pc = "idle" /\ last.op = "generate" /\ Truthy(last.text)

\* raw is p \o A \o q with A, from position i to position j, a JSON array.
ArrayAt(raw, i, j) ==
    /\ raw[i] = "["
    /\ json_loads(SubSeq(raw, i, j)).ok

NoToken(raw, tok, i, j) == \A k \in i..j : raw[k] # tok

\* C13 as stated: for a text prose + A + prose with A a JSON array and any
\* prose around it, brackets included, the sanitizer returns the parse of A.
C13_ArrayInAnyProse ==
    Sanitized =>
        LET raw == last.text.v
        IN  \A i \in 1..Len(raw) : \A j \in i..Len(raw) :
                ArrayAt(raw, i, j) => quiz_questions = json_loads(SubSeq(raw, i, j)).val

\* C13, amended: for a text prose + A + prose with A a JSON array, no "["
\* in the prose before it and no "]" in the prose after it, the sanitizer
\* returns the parse of A.
C13_ArrayInBracketFreeProse ==
    Sanitized =>
        LET raw == last.text.v
        IN  \A i \in 1..Len(raw) : \A j \in i..Len(raw) :
                (/\ ArrayAt(raw, i, j)
                 /\ NoToken(raw, "[", 1, i - 1)
                 /\ NoToken(raw, "]", j + 1, Len(raw)))
                    => quiz_questions = json_loads(SubSeq(raw, i, j)).val

\* C13 happens: a one-element array between prose on both sides, the
\* prose with a "]" before the array.
C13_Witness ==
    /\ Sanitized
    /\ last.text.v = <<"]", "[", "0", "]", "x">>
    /\ quiz_questions = List(<<Num("0")>>)

\* The first "[" and the last "]" of raw, as sets of positions (empty when
\* the character is absent).
FirstOpen(raw) == {i \in 1..Len(raw) : raw[i] = "[" /\ NoToken(raw, "[", 1, i - 1)}

LastClose(raw) == {j \in 1..Len(raw) : raw[j] = "]" /\ NoToken(raw, "]", j + 1, Len(raw))}

\* C14: the sanitizer returns None exactly when the text has no "[", or no
\* "]", or the slice from the first "[" through the last "]" (empty when
\* the "]" comes first) does not parse; otherwise it returns the parse of
\* that slice.
C14_FailureExactlyWhenNoParse ==
    Sanitized =>
        LET raw == last.text.v
            usable == \E i \in FirstOpen(raw) : \E j \in LastClose(raw) :
                          i < j /\ json_loads(SubSeq(raw, i, j)).ok
        IN  /\ quiz_questions = None <=> ~usable
            /\ \A i \in FirstOpen(raw) : \A j \in LastClose(raw) :
                  (i < j /\ json_loads(SubSeq(raw, i, j)).ok)
                      => quiz_questions = json_loads(SubSeq(raw, i, j)).val

\* C14 happens: a text whose last "]" comes before its first "[".
C14_Witness ==
    /\ Sanitized
    /\ last.text.v = <<"]", "0", "[">>
    /\ quiz_questions = None

-----------------------------------------------------------------------------
(* The gateway call of a conversational send.                              *)

\* The turn sequence the service receives from an outstanding conversational
\* call: start_chat(history) followed by send_message(prompt).
Received == call.chat_history.v \o <<Turn("user", call.prompt)>>

\* C15: while a conversational call is out, the history handed to the
\* gateway is the turns before the new user message, the prompt is the new
\* message, and what the service receives equals the stored history right
\* after the user append (so it holds the new message once).
C15_GatewayGetsPriorTurns ==
    (pc = "chat_call") =>
        /\ call.prompt = last.arg
        /\ call.chat_history = List(last.before)
        /\ Received = chat_history

-----------------------------------------------------------------------------
(* Individually malformed items.                                           *)

\* The score header of the run that follows a submit: score / total.
ScoreDisplay == [score |-> quiz_score.v, total |-> Len(quiz_questions.v)]

\* An item with its required members: an object with a question and a list
\* of options.
WellFormed(q) ==
    /\ q.t = "dict"
    /\ {<<"question">>, <<"options">>} \subseteq DOMAIN q.v
    /\ q.v[<<"options">>].t = "list"

WellFormedIndices == {i \in Indices(quiz_questions) : WellFormed(At(quiz_questions, i))}

\* The part of C16 about the items that are rendered and graded: exactly
\* the well-formed items have a radio; after a submit exactly they have an
\* answer, the score counts the correct answers among them, and the total
\* shown is the number of all items.
SkippedAndGraded ==
    /\ DOMAIN radio = WellFormedIndices
    /\ last.op = "submit" =>
          /\ DOMAIN user_answers = WellFormedIndices
          /\ quiz_score = PyInt(Cardinality({i \in WellFormedIndices : i \in CorrectIndices}))
          /\ ScoreDisplay.total = Len(quiz_questions.v)

\* C16: with items stored, a script run does not fail on an item that lacks
\* question or options or whose options is no list: the item is skipped (no
\* radio, no answer, nothing added to the score), every other item is
\* rendered and graded, and the total shown is len(items).
C16_MalformedItemSkipped ==
    (pc = "idle" /\ Truthy(quiz_questions)) =>
        /\ ~RenderRaises(quiz_questions)
        /\ SkippedAndGraded

\* The same for the runs that reach the end of the form: the items are
\* objects, or values on which the format check does not raise.
SkippedWhereFormCompletes ==
    (pc = "idle" /\ Truthy(quiz_questions) /\ ~RenderRaises(quiz_questions)) => SkippedAndGraded

-----------------------------------------------------------------------------
(* Frame conditions.                                                       *)

\* C17: the stored items change only in a generate with a non-empty topic
\* (when it clears them and when it stores the sanitized response) or in a
\* retake; a submit, grading included, leaves them as they are.
C17_ItemsImmutable ==
    [][/\ quiz_questions' # quiz_questions =>
              GenerateStarts \/ GenerateEnds \/ TakeAnotherQuiz
       /\ SubmitAnswers => quiz_questions' = quiz_questions]_vars

\* C17 happens: a submit has graded a quiz that holds a skipped item, and
\* the item is still stored.
C17_Witness ==
    /\ last.op = "submit"
    /\ Len(quiz_questions.v) = 2
    /\ \E i \in Indices(quiz_questions) : Malformed(At(quiz_questions, i))

-----------------------------------------------------------------------------
(* One script run at a time.                                               *)

\* The user actions of C18.
UserAction ==
    \/ \E p \in Prompts : SendMessage(p)
    \/ GenerateQuiz
    \/ SubmitAnswers
    \/ TakeAnotherQuiz
    \/ ClearChatHistory

SendEnds == pc = "chat_call" /\ pc' = "idle"

\* C19: generate (its start, its end, its empty-topic warning), submit and
\* retake leave the chat history as it is, whatever their outcome; send
\* (its start and its end) and "Clear Chat History" leave items, answers
\* and score as they are.
C19_ChatAndQuizIndependent ==
    [][/\ (GenerateQuiz \/ GenerateEnds \/ SubmitAnswers \/ TakeAnotherQuiz)
              => chat_history' = chat_history
       /\ ((\E p \in Prompts : SendMessage(p)) \/ SendEnds \/ ClearChatHistory)
              => UNCHANGED quiz_vars]_vars

\* C19 happens: the history of a finished exchange cleared under a graded
\* quiz, which is still there.
C19_Witness ==
    /\ last.op = "clear"
    /\ last.prev = "send"
    /\ chat_history = <<>>
    /\ QuizState = "GRADED"

-----------------------------------------------------------------------------
(* The shape of the chat history.                                          *)

\* Every model turn comes right after a user turn.
ModelTurnsFollowUserTurns ==
    \A n \in 1..Len(chat_history) :
        chat_history[n].role = "model" =>
            n > 1 /\ chat_history[n - 1].role = "user"

\* A finished send has left its user turn without a reply: the next send
\* will put a second user turn right after it.
DanglingUserTurn ==
    /\ SendDone
    /\ chat_history[Len(chat_history)].role = "user"

\* C20: every model turn comes right after a user turn (so the history
\* neither starts with a model turn nor holds two in a row), and a send
\* leaves its user turn without a reply, which is what lets two user turns
\* follow each other, only when the reply failed.
C20_TurnsAlternateUnlessReplyFailed ==
    /\ ModelTurnsFollowUserTurns
    /\ DanglingUserTurn => last.outcome = "gateway_failure"

====
